---- MODULE Spec2Model ----
(***************************************************************************)
(* Model of the set-query part of mtg-sdk-go: the setQuery filter map      *)
(* (NewSetQuery, Where, Copy), the page fetcher fetchSets with checkError, *)
(* and the retrieval operations All, Page and PageS.                       *)
(***************************************************************************)
EXTENDS Integers, Sequences, FiniteSets, TLC

VARIABLES
    heap,       \* the setQuery maps that exist, by reference (index)
    calls,      \* the accumulator calls made so far, each with its return value
    fResp,      \* the HTTP response handed to the last fetchSets call
    fOut,       \* what that fetchSets call returned: sets, header, err
    q,          \* the receiver map of the retrieval operations
    pc,         \* "idle", "All" (inside the loop of All) or "done" (returned)
    op,         \* the retrieval operation in progress or just returned
    args,       \* its arguments (pageNum, pageSize)
    qAtCall,    \* the receiver's entries when the operation was called
    queryVals,  \* the operation's local url.Values
    nextURL,    \* the local nextURL of All
    allSets,    \* the local allSets of All
    fetches,    \* the fetches the operation issued, in order: url and response
    result,     \* what the operation returned: sets, total, err
    lOut        \* the last singular lookup: its key and what it returned

accVars   == <<heap, calls>>
fetchVars == <<fResp, fOut, lOut>>
queryVars == <<q, pc, op, args, qAtCall, queryVals, nextURL, allSets, fetches, result>>
vars      == <<heap, calls, fResp, fOut, q, pc, op, args, qAtCall, queryVals,
               nextURL, allSets, fetches, result, lOut>>

----------------------------------------------------------------------------
(* Bounds and input sets *)

MaxAccs    == 3     \* accumulators alive at once
MaxCalls   == 5     \* accumulator calls in one run
MaxFetches == 3     \* page fetches followed in one All()
MaxCountLen == 2    \* characters of a Total-Count header value

Columns  == {"name", "block"}
Queries  == {"Ixalan", "Zendikar"}
Absent   == "#absent"

----------------------------------------------------------------------------
(* The filter accumulator: type setQuery map[string]string *)

\* make(setQuery): a map with no entries
make_setQuery == [k \in {} |-> Absent]

\* m[k], with Absent for a key the map does not hold
Lookup(m, k) == IF k \in DOMAIN m THEN m[k] ELSE Absent

\* q[col] = qry that keeps the value a column already has
WhereSet_KeepFirst(m, col, qry) ==
    [k \in DOMAIN m \cup {col} |-> IF k \in DOMAIN m THEN m[k] ELSE qry]

\* q[string(col)] = qry
WhereSet(m, col, qry) ==
    [k \in DOMAIN m \cup {col} |-> IF k = col THEN qry ELSE m[k]]

\* Where returns q, the receiver itself
WhereRet(id) == id

\* a Copy whose loop copies no entry
CopyOf_Empty(m) == make_setQuery

\* r := make(setQuery); for k, v := range q { r[k] = v }
CopyOf(m) == [k \in DOMAIN m |-> m[k]]

NoCall == [op |-> "none", recv |-> 0, col |-> Absent, qry |-> Absent, ret |-> 0]

NewSetQuery ==
    /\ Len(heap) < MaxAccs
    /\ Len(calls) < MaxCalls
    /\ heap' = Append(heap, make_setQuery)
    /\ calls' = Append(calls, [NoCall EXCEPT !.op = "NewSetQuery",
                                             !.ret = Len(heap) + 1])
    /\ UNCHANGED <<fetchVars, queryVars>>

Where(id, col, qry) ==
    /\ id \in 1..Len(heap)
    /\ Len(calls) < MaxCalls
    /\ heap' = [heap EXCEPT ![id] = WhereSet(heap[id], col, qry)]
    /\ calls' = Append(calls, [op |-> "Where", recv |-> id, col |-> col,
                               qry |-> qry, ret |-> WhereRet(id)])
    /\ UNCHANGED <<fetchVars, queryVars>>

Copy(id) ==
    /\ id \in 1..Len(heap)
    /\ Len(heap) < MaxAccs
    /\ Len(calls) < MaxCalls
    /\ heap' = Append(heap, CopyOf(heap[id]))
    /\ calls' = Append(calls, [NoCall EXCEPT !.op = "Copy", !.recv = id,
                                             !.ret = Len(heap) + 1])
    /\ UNCHANGED <<fetchVars, queryVars>>

----------------------------------------------------------------------------
(* HTTP responses as the page fetcher sees them *)

Entities  == {"e1", "e2"}
PageLists == {<<>>, <<"e1">>, <<"e2", "e1">>}
Messages  == {"Not Found", "Internal"}

StatusOK == 200

\* r.Status, the status line the server sent with r.StatusCode
StatusLine(code) ==
    CASE code = 200 -> "200 OK"
      [] code = 201 -> "201 Created"
      [] code = 404 -> "404 Not Found"
      [] OTHER      -> "500 Internal Server Error"

\* a nil error, and the error values the code produces
NilErr            == [kind |-> "nil", status |-> "", msg |-> ""]
TransportErr      == [kind |-> "transport", status |-> "", msg |-> "connection refused"]
JSONErr           == [kind |-> "json", status |-> "", msg |-> "invalid character"]
NumErr            == [kind |-> "NumError", status |-> "", msg |-> "invalid syntax"]
ErrorString(text) == [kind |-> "errorString", status |-> "", msg |-> text]
ServerError(status, message) ==
    [kind |-> "ServerError", status |-> status, msg |-> message]

\* a nil http.Header: a map no key of which can be looked up
NilHeader == [k \in {"#nil"} |-> <<>>]
\* a nil slice of sets (the code never tells nil from empty)
NilSets   == <<>>

\* a body that is not JSON
Garbage == [json |-> FALSE, set |-> Absent, sets |-> <<>>,
            status |-> Absent, error |-> Absent]
\* a JSON object with the fields "set", "sets", "status", "error" (Absent: no such field)
JSONBodies ==
    [json : {TRUE}, set : Entities \cup {Absent}, sets : PageLists,
     status : {Absent, "404"}, error : Messages \cup {Absent}]

\* one comma-separated part of a Link header value
Malformed  == [wf |-> FALSE, url |-> <<>>, rel |-> ""]
Link(u, r) == [wf |-> TRUE, url |-> <<u>>, rel |-> r]

Response(code, body, header) ==
    [transport |-> "ok", StatusCode |-> code, Status |-> StatusLine(code),
     Body |-> body, Header |-> header]
\* http.Get itself failed: there is no response
NoResponse ==
    [transport |-> "err", StatusCode |-> 0, Status |-> "",
     Body |-> Garbage, Header |-> NilHeader]

----------------------------------------------------------------------------
(* checkError and fetchSets *)

\* json.NewDecoder(r.Body).Decode(&sverr): a missing field leaves ""
DecodeServerError(body) ==
    [ok      |-> body.json,
     Status  |-> IF body.json /\ body.status # Absent THEN body.status ELSE "",
     Message |-> IF body.json /\ body.error # Absent THEN body.error ELSE ""]

\* decoder.Decode(&sr) into struct{ Sets []*Set; Set *Set }
DecodeSetsEnvelope(body) ==
    [ok   |-> body.json,
     Set  |-> IF body.json THEN body.set ELSE Absent,
     Sets |-> IF body.json THEN body.sets ELSE NilSets]

\* a checkError that reports the envelope's status field as the message
checkError_StatusAsMessage(r) ==
    IF r.StatusCode = StatusOK THEN NilErr
    ELSE LET sverr == DecodeServerError(r.Body) IN
         IF ~sverr.ok THEN ErrorString(r.Status)
         ELSE ServerError(sverr.Status, sverr.Status)

checkError(r) ==
    IF r.StatusCode = StatusOK THEN NilErr
    ELSE LET sverr == DecodeServerError(r.Body) IN
         IF ~sverr.ok THEN ErrorString(r.Status)
         ELSE ServerError(sverr.Status, sverr.Message)

\* an envelope reading that prefers a non-empty plural field
EnvelopeSets_PluralFirst(sr) ==
    IF Len(sr.Sets) > 0 THEN sr.Sets
    ELSE IF sr.Set # Absent THEN <<sr.Set>> ELSE sr.Sets

\* if sr.Set != nil { return []*Set{sr.Set} }; return sr.Sets
EnvelopeSets(sr) ==
    IF sr.Set # Absent THEN <<sr.Set>> ELSE sr.Sets

FetchFailed(err) == [sets |-> NilSets, header |-> NilHeader, err |-> err]

fetchSets(r) ==
    IF r.transport = "err" THEN FetchFailed(TransportErr)
    ELSE IF checkError(r) # NilErr THEN FetchFailed(checkError(r))
    ELSE LET sr == DecodeSetsEnvelope(r.Body) IN
         IF ~sr.ok THEN FetchFailed(JSONErr)
         ELSE [sets |-> EnvelopeSets(sr), header |-> r.Header, err |-> NilErr]

\* the responses one fetchSets call is tried on
FetchHeaders ==
    { [k \in {} |-> <<>>],
      [k \in {"Link", "Total-Count"} |->
          IF k = "Link" THEN <<Link("/p2", "next")>> ELSE <<"7">>] }
FetchResponses ==
    {NoResponse} \cup
    { Response(code, body, h) :
        code \in {200, 201, 404, 500}, body \in JSONBodies \cup {Garbage},
        h \in FetchHeaders }

FetchSetsCall ==
    /\ \E r \in FetchResponses :
          /\ fResp' = r
          /\ fOut' = fetchSets(r)
    /\ UNCHANGED <<accVars, queryVars, lOut>>

----------------------------------------------------------------------------
(* Request URLs: a URL is a sequence of text pieces, "" is the empty one *)

QueryURL == "https://api.magicthegathering.io/v1/"
EmptyURL == <<>>

\* url.Values.Encode writes the keys in sorted order
KeyOrder == <<"block", "name", "page", "pageSize">>

RECURSIVE EncodeFrom(_, _)
EncodeFrom(vals, i) ==
    IF i > Len(KeyOrder) THEN <<>>
    ELSE (IF KeyOrder[i] \in DOMAIN vals
            THEN <<KeyOrder[i], vals[KeyOrder[i]]>> ELSE <<>>)
         \o EncodeFrom(vals, i + 1)
Encode(vals) == EncodeFrom(vals, 1)

\* queryURL + "sets?" + queryVals.Encode()
SetsURL(vals) == <<QueryURL, "sets?">> \o Encode(vals)

\* strconv.Itoa
Itoa(n) == ToString(n)

\* queryVals := make(url.Values); for k, v := range q { queryVals.Set(k, v) }
BuildQueryVals(m) == [k \in DOMAIN m |-> m[k]]

\* queryVals.Set(key, value)
ValuesSet(vals, key, value) ==
    [k \in DOMAIN vals \cup {key} |-> IF k = key THEN value ELSE vals[k]]

\* a receiver that the operation's own url.Values aliases
ReceiverAfter_Aliased(m, vals) == vals

\* the receiver after the operation has filled its url.Values: queryVals is a
\* fresh map (make(url.Values)), so writing to it never reaches q
ReceiverAfter(m, vals) == m

----------------------------------------------------------------------------
(* The Link header scan of All *)

\* linkRE.FindStringSubmatch(link): nil, or the URL and the relation
LinkMatch(part) ==
    [matched |-> part.wf, url |-> part.url, rel |-> part.rel]

\* for _, link := range parts { ... if match[2] == "next" { nextURL = match[1] } }
RECURSIVE ScanLinks(_, _, _)
ScanLinks(parts, i, cur) ==
    IF i > Len(parts) THEN cur
    ELSE LET match == LinkMatch(parts[i]) IN
         ScanLinks(parts, i + 1,
                   IF match.matched /\ match.rel = "next" THEN match.url ELSE cur)

\* nextURL = ""; if linkH, ok := header["Link"]; ok { parts := Split(linkH[0], ",") ... }
NextLink(header) ==
    IF "Link" \in DOMAIN header THEN ScanLinks(header["Link"], 1, EmptyURL)
    ELSE EmptyURL

\* an append that puts the new page in front
AppendSets_Prepend(all, sets) == sets \o all

\* allSets = append(allSets, sets...)
AppendSets(all, sets) == all \o sets

\* an error return that hands back the pages read so far
AllFailed_Partial(all, err) == [sets |-> all, total |-> 0, err |-> err]

\* if err != nil { return nil, err }
AllFailed(all, err) == [sets |-> NilSets, total |-> 0, err |-> err]

----------------------------------------------------------------------------
(* strconv.Atoi on a header value, a sequence of characters *)

Chars == {"1", "7", "-", "x"}

DigitVal(c) == CASE c = "1" -> 1 [] c = "7" -> 7 [] OTHER -> 10

RECURSIVE DigitsValue(_, _)
DigitsValue(s, n) ==
    IF s = <<>> THEN n ELSE DigitsValue(Tail(s), n * 10 + DigitVal(Head(s)))

Atoi(s) ==
    IF Len(s) = 0 THEN [n |-> 0, err |-> NumErr]
    ELSE LET signed == Head(s) \in {"-", "+"}
             digits == IF signed THEN Tail(s) ELSE s
         IN  IF Len(digits) < 1 \/ \E i \in 1..Len(digits) : DigitVal(digits[i]) > 9
               THEN [n |-> 0, err |-> NumErr]
               ELSE [n   |-> IF Head(s) = "-" THEN 0 - DigitsValue(digits, 0)
                             ELSE DigitsValue(digits, 0),
                     err |-> NilErr]

\* a total count that never looks at the header
PageResult_CountOnly(sets, header) ==
    [sets |-> sets, total |-> Len(sets), err |-> NilErr]

\* a total count that falls back to the page's length when the header does not parse
PageResult_Lenient(sets, header) ==
    IF "Total-Count" \in DOMAIN header /\ Atoi(header["Total-Count"]).err = NilErr
      THEN [sets |-> sets, total |-> Atoi(header["Total-Count"]).n, err |-> NilErr]
      ELSE [sets |-> sets, total |-> Len(sets), err |-> NilErr]

\* totalSetCount = len(sets); if totals, ok := header["Total-Count"]; ok ... Atoi
PageResult(sets, header) ==
    IF "Total-Count" \in DOMAIN header
      THEN LET a == Atoi(header["Total-Count"]) IN
           IF a.err # NilErr THEN [sets |-> NilSets, total |-> 0, err |-> a.err]
           ELSE [sets |-> sets, total |-> a.n, err |-> NilErr]
      ELSE [sets |-> sets, total |-> Len(sets), err |-> NilErr]

----------------------------------------------------------------------------
(* The responses the retrieval operations are tried on *)

DefaultPageSize == 500

\* a header with at most one Link value and at most one Total-Count value;
\* links and counts are the empty set or hold the one value
Header(links, counts) ==
    [k \in (IF links = {} THEN {} ELSE {"Link"}) \cup
           (IF counts = {} THEN {} ELSE {"Total-Count"}) |->
        IF k = "Link" THEN CHOOSE v \in links : TRUE
        ELSE CHOOSE v \in counts : TRUE]

PageBody(sets) == [json |-> TRUE, set |-> Absent, sets |-> sets,
                   status |-> Absent, error |-> Absent]
ErrorBody      == [json |-> TRUE, set |-> Absent, sets |-> <<>>,
                   status |-> "404", error |-> "Not Found"]

FailingResponses ==
    { NoResponse,
      Response(404, ErrorBody, Header({}, {})),
      Response(500, Garbage, Header({}, {})),
      Response(200, Garbage, Header({}, {})) }

\* Link header values: none, no next, one next, a malformed part before a
\* next, two next parts with different URLs
LinkOptions ==
    { {},
      {<<Link("/p1", "prev")>>},
      {<<Link("/p2", "next")>>},
      {<<Malformed, Link("/p3", "next")>>},
      {<<Link("/p2", "next"), Link("/p3", "next")>>} }

AllResponses ==
    FailingResponses \cup
    { Response(200, PageBody(sets), Header(links, {})) :
        sets \in PageLists, links \in LinkOptions }

CharSeqs(n)  == UNION { [1..k -> Chars] : k \in 0..n }
CountOptions == {{}} \cup { {s} : s \in CharSeqs(MaxCountLen) }

PageResponses ==
    FailingResponses \cup
    { Response(200, PageBody(sets), Header({}, counts)) :
        sets \in PageLists, counts \in CountOptions }

----------------------------------------------------------------------------
(* All, Page and PageS on the receiver q *)

NoArgs   == [pageNum |-> 0, pageSize |-> 0]
NoResult == [sets |-> NilSets, total |-> 0, err |-> NilErr]

\* the caller sets a filter on the receiver between two retrievals
WhereOnReceiver(col, qry) ==
    /\ pc = "idle"
    /\ q' = WhereSet(q, col, qry)
    /\ UNCHANGED <<accVars, fetchVars, pc, op, args, qAtCall, queryVals,
                   nextURL, allSets, fetches, result>>

\* All up to its loop: the url.Values and the first URL
AllCall ==
    /\ pc = "idle"
    /\ pc' = "All"
    /\ op' = "All"
    /\ args' = NoArgs
    /\ qAtCall' = q
    /\ queryVals' = BuildQueryVals(q)
    /\ q' = ReceiverAfter(q, queryVals')
    /\ nextURL' = SetsURL(queryVals')
    /\ allSets' = NilSets
    /\ fetches' = <<>>
    /\ result' = NoResult
    /\ UNCHANGED <<accVars, fetchVars>>

\* one turn of the loop of All, and the return when the loop ends
AllFetch ==
    /\ pc = "All"
    /\ nextURL # EmptyURL
    /\ Len(fetches) < MaxFetches
    /\ \E r \in AllResponses :
         LET out == fetchSets(r) IN
         /\ fetches' = Append(fetches, [url |-> nextURL, resp |-> r])
         /\ IF out.err # NilErr
              THEN /\ pc' = "done"
                   /\ result' = AllFailed(allSets, out.err)
                   /\ UNCHANGED <<nextURL, allSets>>
              ELSE /\ nextURL' = NextLink(out.header)
                   /\ allSets' = AppendSets(allSets, out.sets)
                   /\ IF nextURL' = EmptyURL
                        THEN /\ pc' = "done"
                             /\ result' = [sets |-> allSets', total |-> 0,
                                           err |-> NilErr]
                        ELSE /\ pc' = "All"
                             /\ result' = result
    /\ UNCHANGED <<accVars, fetchVars, q, op, args, qAtCall, queryVals>>

\* the body of PageS, called as name
PageSRun(name, pageNum, pageSize) ==
    /\ pc = "idle"
    /\ pc' = "done"
    /\ op' = name
    /\ args' = [pageNum |-> pageNum, pageSize |-> pageSize]
    /\ qAtCall' = q
    /\ queryVals' = ValuesSet(ValuesSet(BuildQueryVals(q), "page", Itoa(pageNum)),
                              "pageSize", Itoa(pageSize))
    /\ q' = ReceiverAfter(q, queryVals')
    /\ \E r \in PageResponses :
         LET out == fetchSets(r) IN
         /\ fetches' = <<[url |-> SetsURL(queryVals'), resp |-> r]>>
         /\ result' = IF out.err # NilErr
                        THEN [sets |-> NilSets, total |-> 0, err |-> out.err]
                        ELSE PageResult(out.sets, out.header)
    /\ UNCHANGED <<accVars, fetchVars, nextURL, allSets>>

PageS(pageNum, pageSize) == PageSRun("PageS", pageNum, pageSize)

\* return q.PageS(pageNum, 500)
Page(pageNum) == PageSRun("Page", pageNum, DefaultPageSize)

\* the caller takes the result; the operation's locals are gone
Return ==
    /\ pc = "done"
    /\ pc' = "idle"
    /\ op' = "none"
    /\ args' = NoArgs
    /\ qAtCall' = make_setQuery
    /\ queryVals' = make_setQuery
    /\ nextURL' = EmptyURL
    /\ allSets' = NilSets
    /\ fetches' = <<>>
    /\ result' = NoResult
    /\ UNCHANGED <<accVars, fetchVars, q>>

----------------------------------------------------------------------------
(* The singular lookups: SetCode.Fetch and Fetch (card by id) *)

SetCodes == {"XLN"}
CardIDs  == {"386616"}

\* fmt.Errorf("Set %q not found", ...), fmt.Errorf("Card with ID %s not found", ...)
NotFoundErr(key) == [kind |-> "notFound", status |-> "", msg |-> key]

NoLookup == [op |-> "none", key |-> "", entity |-> Absent, err |-> NilErr]

\* SetCode.Fetch after its fetchSets call
SetFetchResult(out, s) ==
    IF out.err # NilErr THEN [entity |-> Absent, err |-> out.err]
    ELSE IF Len(out.sets) # 1 THEN [entity |-> Absent, err |-> NotFoundErr(s)]
    ELSE [entity |-> out.sets[1], err |-> NilErr]

\* decodeCards(body): the envelope of the cards endpoint read as fetchSets
\* reads the sets envelope; the body's singular and plural fields stand for
\* "card" and "cards"
decodeCards(body) ==
    LET cr == DecodeSetsEnvelope(body) IN
    [cards |-> IF cr.ok THEN EnvelopeSets(cr) ELSE NilSets,
     err   |-> IF cr.ok THEN NilErr ELSE JSONErr]

\* Fetch(filterID) on the response r
CardFetchResult(r, filterID) ==
    IF r.transport = "err" THEN [entity |-> Absent, err |-> TransportErr]
    ELSE IF checkError(r) # NilErr THEN [entity |-> Absent, err |-> checkError(r)]
    ELSE LET d == decodeCards(r.Body) IN
         IF d.err # NilErr THEN [entity |-> Absent, err |-> d.err]
         ELSE IF Len(d.cards) # 1
                THEN [entity |-> Absent, err |-> NotFoundErr(filterID)]
         ELSE [entity |-> d.cards[1], err |-> NilErr]

\* a JSON array can hold null: it decodes to a nil pointer in the slice
NullListBodies ==
    [json : {TRUE}, set : {Absent}, sets : {<<Absent>>, <<Absent, "e1">>},
     status : {Absent}, error : {Absent}]

LookupResponses ==
    {NoResponse} \cup
    { Response(code, body, [k \in {} |-> <<>>]) :
        code \in {200, 404},
        body \in JSONBodies \cup NullListBodies \cup {Garbage} }

SetCodeFetch(s) ==
    /\ \E r \in LookupResponses :
          /\ fResp' = r
          /\ fOut' = fetchSets(r)
          /\ lOut' = [op |-> "SetCode.Fetch", key |-> s,
                      entity |-> SetFetchResult(fetchSets(r), s).entity,
                      err |-> SetFetchResult(fetchSets(r), s).err]
    /\ UNCHANGED <<accVars, queryVars>>

Fetch(filterID) ==
    /\ \E r \in LookupResponses :
          /\ fResp' = r
          /\ lOut' = [op |-> "Fetch", key |-> filterID,
                      entity |-> CardFetchResult(r, filterID).entity,
                      err |-> CardFetchResult(r, filterID).err]
    /\ UNCHANGED <<accVars, queryVars, fOut>>

----------------------------------------------------------------------------
(* Specifications *)

NotFetched == [transport |-> "none", StatusCode |-> 0, Status |-> "",
               Body |-> Garbage, Header |-> NilHeader]

Init ==
    /\ heap = <<>>
    /\ calls = <<>>
    /\ fResp = NotFetched
    /\ fOut = FetchFailed(NilErr)
    /\ q = make_setQuery
    /\ pc = "idle"
    /\ op = "none"
    /\ args = NoArgs
    /\ qAtCall = make_setQuery
    /\ queryVals = make_setQuery
    /\ nextURL = EmptyURL
    /\ allSets = NilSets
    /\ fetches = <<>>
    /\ result = NoResult
    /\ lOut = NoLookup

NextAcc ==
    \/ NewSetQuery
    \/ \E id \in 1..MaxAccs, col \in Columns, qry \in Queries : Where(id, col, qry)
    \/ \E id \in 1..MaxAccs : Copy(id)

NextFetch == FetchSetsCall

NextLookup ==
    \/ \E s \in SetCodes : SetCodeFetch(s)
    \/ \E filterID \in CardIDs : Fetch(filterID)

NextQuery ==
    \/ \E col \in Columns, qry \in Queries : WhereOnReceiver(col, qry)
    \/ AllCall
    \/ AllFetch
    \/ \E pageNum \in {1, 2}, pageSize \in {2, DefaultPageSize} : PageS(pageNum, pageSize)
    \/ \E pageNum \in {1, 2} : Page(pageNum)
    \/ Return

Next == NextAcc \/ NextFetch \/ NextLookup \/ NextQuery

SpecAcc   == Init /\ [][NextAcc]_vars
SpecFetch == Init /\ [][NextFetch]_vars
SpecLookup == Init /\ [][NextLookup]_vars
SpecQuery == Init /\ [][NextQuery]_vars
Spec      == Init /\ [][Next]_vars

----------------------------------------------------------------------------
(* Properties of the filter accumulator, checked under SpecAcc *)

CallIndexes == 1..Len(calls)

\* the Where calls on accumulator id and column col among calls lo..hi
WheresOn(id, col, lo, hi) ==
    { n \in lo..hi : /\ calls[n].op = "Where"
                     /\ calls[n].recv = id
                     /\ calls[n].col = col }

Latest(S) == CHOOSE n \in S : \A m \in S : m <= n

CreatedByNew(id) ==
    \E n \in CallIndexes : calls[n].op = "NewSetQuery" /\ calls[n].ret = id

\* the value the last Where call on (id, col) gave, Absent when there was none
LastWhere(id, col) ==
    IF WheresOn(id, col, 1, Len(calls)) = {} THEN Absent
    ELSE calls[Latest(WheresOn(id, col, 1, Len(calls)))].qry

\* C7: after any sequence of Where calls on an accumulator that NewSetQuery
\* created empty, each column holds the value of the last Where call on it and
\* a column never set has no entry; and every Where call returns its receiver.
C7_WhereLastWriteWins ==
    /\ \A n \in CallIndexes :
          calls[n].op = "Where" => calls[n].ret = calls[n].recv
    /\ \A id \in 1..Len(heap) :
          CreatedByNew(id) =>
             /\ DOMAIN heap[id] \subseteq Columns
             /\ \A col \in Columns : Lookup(heap[id], col) = LastWhere(id, col)

C7_Witness ==
    /\ Len(calls) = 3
    /\ calls[1].op = "NewSetQuery"
    /\ calls[2] = [op |-> "Where", recv |-> 1, col |-> "name",
                   qry |-> "Ixalan", ret |-> 1]
    /\ calls[3] = [op |-> "Where", recv |-> 1, col |-> "name",
                   qry |-> "Zendikar", ret |-> 1]
    /\ DOMAIN heap[1] = {"name"}
    /\ heap[1]["name"] = "Zendikar"

\* what accumulator id must hold in column col after the first n calls, told
\* from the calls alone: the last Where on it, and before any such Where the
\* value its source held when it was copied (nothing for a new accumulator)
RECURSIVE ValueAt(_, _, _)
ValueAt(id, col, n) ==
    IF n = 0 THEN Absent
    ELSE LET c == calls[n] IN
         IF c.op = "Where" /\ c.recv = id /\ c.col = col THEN c.qry
         ELSE IF c.op = "NewSetQuery" /\ c.ret = id THEN Absent
         ELSE IF c.op = "Copy" /\ c.ret = id THEN ValueAt(c.recv, col, n - 1)
         ELSE ValueAt(id, col, n - 1)

\* C6: a Copy returns another accumulator than its receiver, holding the
\* receiver's pairs of that moment; from then on a Where on one of the two
\* never shows in the other.
C6_CopyIsIndependent ==
    \A n \in CallIndexes :
       calls[n].op = "Copy" =>
          /\ calls[n].ret # calls[n].recv
          /\ \A col \in Columns :
                /\ Lookup(heap[calls[n].ret], col)
                      = ValueAt(calls[n].ret, col, Len(calls))
                /\ Lookup(heap[calls[n].recv], col)
                      = ValueAt(calls[n].recv, col, Len(calls))

C6_Witness ==
    /\ Len(calls) = 5
    /\ calls[2] = [op |-> "Where", recv |-> 1, col |-> "name",
                   qry |-> "Ixalan", ret |-> 1]
    /\ calls[3].op = "Copy" /\ calls[3].recv = 1 /\ calls[3].ret = 2
    /\ calls[4] = [op |-> "Where", recv |-> 2, col |-> "name",
                   qry |-> "Zendikar", ret |-> 2]
    /\ calls[5] = [op |-> "Where", recv |-> 1, col |-> "block",
                   qry |-> "Ixalan", ret |-> 1]
    /\ heap[1] = [k \in {"name", "block"} |-> "Ixalan"]
    /\ heap[2] = [k \in {"name"} |-> "Zendikar"]

----------------------------------------------------------------------------
(* Properties of the page fetcher, checked under SpecFetch *)

\* C9: on a successful response whose body decodes, fetchSets returns the
\* singular field alone as a one-element list whenever that field is present,
\* whatever the plural field holds, and the plural field's list otherwise.
C9_SingularBeforePlural ==
    (fResp.transport = "ok" /\ fResp.StatusCode = StatusOK /\ fResp.Body.json) =>
       /\ fOut.err = NilErr
       /\ fResp.Body.set # Absent => fOut.sets = <<fResp.Body.set>>
       /\ fResp.Body.set = Absent => fOut.sets = fResp.Body.sets

C9_Witness ==
    /\ fResp.transport = "ok"
    /\ fResp.StatusCode = StatusOK
    /\ fResp.Body.json
    /\ fResp.Body.set = "e1"
    /\ fResp.Body.sets = <<"e2", "e1">>
    /\ fOut.sets = <<"e1">>

----------------------------------------------------------------------------
(* Properties of All, Page and PageS, checked under SpecQuery *)

FetchIndexes == 1..Len(fetches)

\* what the i-th fetch of the operation gave
Fetched(i)   == fetchSets(fetches[i].resp)
Succeeded(i) == Fetched(i).err = NilErr

\* the URLs of the well-formed rel="next" parts of the i-th page's Link header
NextParts(i) ==
    LET h == fetches[i].resp.Header IN
    IF "Link" \in DOMAIN h
      THEN { k \in 1..Len(h["Link"]) : h["Link"][k].wf /\ h["Link"][k].rel = "next" }
      ELSE {}
NextURLs(i) == { fetches[i].resp.Header["Link"][k].url : k \in NextParts(i) }

\* the entity lists of pages 1..n, one after the other
RECURSIVE ConcatPages(_)
ConcatPages(n) == IF n = 0 THEN <<>> ELSE ConcatPages(n - 1) \o Fetched(n).sets

\* C1: over a chain of successful pages, All fetches the first URL, then after
\* each page whose Link header names one next URL exactly that URL, and stops
\* after the first page that names none; it then returns, without error, the
\* pages' entity lists one after the other, duplicates kept.
C1_AllFollowsChain ==
    op = "All" =>
       /\ Len(fetches) >= 1 => fetches[1].url = SetsURL(BuildQueryVals(qAtCall))
       /\ pc = "done" => Len(fetches) >= 1
       /\ \A i \in FetchIndexes :
             Succeeded(i) =>
                /\ NextURLs(i) = {} => (i = Len(fetches) /\ pc = "done")
                /\ \A u \in NextURLs(i) :
                      NextURLs(i) = {u} =>
                         IF i < Len(fetches) THEN fetches[i + 1].url = u
                         ELSE pc = "All" /\ nextURL = u
       /\ (pc = "done" /\ \A i \in FetchIndexes : Succeeded(i)) =>
             /\ result.err = NilErr
             /\ result.sets = ConcatPages(Len(fetches))

C1_Witness ==
    /\ op = "All"
    /\ pc = "done"
    /\ Len(fetches) = 3
    /\ \A i \in FetchIndexes : Succeeded(i)
    /\ NextURLs(1) = {<<"/p2">>}
    /\ NextURLs(2) = {<<"/p3">>}
    /\ NextURLs(3) = {}
    /\ fetches[2].url = <<"/p2">>
    /\ fetches[3].url = <<"/p3">>
    /\ result = [sets |-> <<"e1", "e2", "e1", "e1">>, total |-> 0, err |-> NilErr]

PageOps == {"PageS", "Page"}

\* C2: after a successful fetch PageS returns the page's entities and, as
\* total, the integer the Total-Count header holds when it is there and parses,
\* however many entities the page has; without the header the total is the
\* number of entities of the page.
C2_TotalCountFromHeader ==
    (op \in PageOps /\ pc = "done" /\ Succeeded(1)) =>
       LET h == Fetched(1).header IN
       /\ ("Total-Count" \in DOMAIN h /\ Atoi(h["Total-Count"]).err = NilErr) =>
             /\ result.err = NilErr
             /\ result.sets = Fetched(1).sets
             /\ result.total = Atoi(h["Total-Count"]).n
       /\ "Total-Count" \notin DOMAIN h =>
             /\ result.err = NilErr
             /\ result.sets = Fetched(1).sets
             /\ result.total = Len(Fetched(1).sets)

C2_Witness ==
    /\ op = "PageS"
    /\ pc = "done"
    /\ Succeeded(1)
    /\ "Total-Count" \in DOMAIN Fetched(1).header
    /\ Fetched(1).header["Total-Count"] = <<"1", "7">>
    /\ result = [sets |-> <<"e2", "e1">>, total |-> 17, err |-> NilErr]

\* C3: when the fetch succeeds and the Total-Count header is there but does not
\* parse as an integer, PageS returns an error, no entities and total 0.
C3_BadTotalCountFails ==
    (op \in PageOps /\ pc = "done" /\ Succeeded(1)) =>
       LET h == Fetched(1).header IN
       ("Total-Count" \in DOMAIN h /\ Atoi(h["Total-Count"]).err # NilErr) =>
          /\ result.err # NilErr
          /\ result.sets = NilSets
          /\ result.total = 0

C3_Witness ==
    /\ op = "PageS"
    /\ pc = "done"
    /\ Succeeded(1)
    /\ Fetched(1).sets = <<"e2", "e1">>
    /\ "Total-Count" \in DOMAIN Fetched(1).header
    /\ Fetched(1).header["Total-Count"] = <<"1", "x">>
    /\ result = [sets |-> NilSets, total |-> 0, err |-> NumErr]

\* C4: when a page fetch of All fails, All returns that error and no entities,
\* whatever the pages before held; the failing fetch is the last fetch of the
\* call (nothing is fetched after it and it is not tried again).
C4_AllFailsFast ==
    op = "All" =>
       \A i \in FetchIndexes :
          ~Succeeded(i) =>
             /\ i = Len(fetches)
             /\ pc = "done"
             /\ result.err = Fetched(i).err
             /\ result.sets = NilSets

C4_Witness ==
    /\ op = "All"
    /\ pc = "done"
    /\ Len(fetches) = 3
    /\ Fetched(1).sets = <<"e1">>
    /\ Fetched(2).sets = <<"e2", "e1">>
    /\ fetches[3].resp.transport = "ok"
    /\ fetches[3].resp.StatusCode = 404
    /\ result = [sets |-> NilSets, total |-> 0,
                 err |-> ServerError("404", "Not Found")]

\* the URL of the first well-formed rel="next" part of the i-th page
FirstNextURL(i) ==
    fetches[i].resp.Header["Link"][CHOOSE k \in NextParts(i) :
                                      \A m \in NextParts(i) : k <= m].url

\* C5: when a page's Link header has several well-formed rel="next" parts,
\* All goes on with the URL of the first of them, left to right.
C5_FirstNextWins ==
    op = "All" =>
       \A i \in FetchIndexes :
          (Succeeded(i) /\ Cardinality(NextParts(i)) > 1) =>
             IF i < Len(fetches) THEN fetches[i + 1].url = FirstNextURL(i)
             ELSE pc = "All" /\ nextURL = FirstNextURL(i)

\* C8: All, Page and PageS leave the receiver as it was when they were called,
\* at every point up to and including their return; page and pageSize go into
\* the request only.
C8_ReceiverUnchanged ==
    pc # "idle" =>
       /\ q = qAtCall
       /\ DOMAIN q \subseteq Columns
       /\ op \in PageOps =>
             /\ {"page", "pageSize"} \subseteq DOMAIN queryVals
             /\ \A k \in DOMAIN q : queryVals[k] = q[k]

C8_Witness ==
    /\ op = "PageS"
    /\ pc = "done"
    /\ args = [pageNum |-> 2, pageSize |-> 2]
    /\ q = [k \in {"name"} |-> "Ixalan"]
    /\ qAtCall = q
    /\ queryVals = [k \in {"name", "page", "pageSize"} |->
                      IF k = "name" THEN "Ixalan" ELSE "2"]
    /\ fetches[1].url = <<QueryURL, "sets?", "name", "Ixalan",
                          "page", "2", "pageSize", "2">>

----------------------------------------------------------------------------
(* Properties of the singular lookups, checked under SpecLookup *)

\* the list a lookup decodes from a response it could fetch and decode
Decodes(r)     == r.transport = "ok" /\ r.StatusCode = StatusOK /\ r.Body.json
DecodedList(r) == IF r.Body.set # Absent THEN <<r.Body.set>> ELSE r.Body.sets

\* C11: a singular lookup succeeds exactly when the fetch and the decode
\* succeed and the decoded list has one element, and then returns that
\* element; with no or several elements it returns a not-found error and no
\* entity; it never returns success with an absent entity.
C11_LookupExactlyOne ==
    lOut.op # "none" =>
       /\ lOut.err = NilErr <=> (Decodes(fResp) /\ Len(DecodedList(fResp)) = 1)
       /\ lOut.err = NilErr => lOut.entity = DecodedList(fResp)[1]
       /\ (Decodes(fResp) /\ Len(DecodedList(fResp)) # 1) =>
             (lOut.err.kind = "notFound" /\ lOut.entity = Absent)
       /\ lOut.err = NilErr => lOut.entity # Absent

====
